---- MODULE Spec2Model ----
(***************************************************************************)
(* Model of the unified-inbox IMAP synchronisation pipeline:               *)
(*   server/lib/imap-sync.ts  (session registry, fetch passes, handlers)   *)
(*   server/storage.ts        (MemStorage)                                 *)
(*   server/mongo-storage.ts  (MongoStorage)                               *)
(*   server/lib/openai.ts, elasticsearch.ts, webhooks.ts (collaborators)   *)
(*   server/routes.ts         (/api/accounts, /api/emails, /api/knowledge)  *)
(* Every await of the source is a step boundary; the code between two      *)
(* awaits is one atomic action (single-threaded event loop).               *)
(***************************************************************************)
EXTENDS Integers, Sequences, FiniteSets, TLC

\* ---------------------------------------------------------------- bounds
MaxAccounts == 2      \* accounts ever registered
MaxSessions == 3      \* IMAP sessions ever constructed
MaxPasses   == 2      \* fetch passes ever started
MaxHandlers == 2      \* message handlers ever started
MaxMail     == 1      \* messages delivered to one server mailbox
MaxBatch    == 2      \* messages in the inbox when a single pass is studied
MaxResults  == 102    \* messages in the inbox when the batch cap is studied

\* ------------------------------------------------------ program constants
BatchCap == 100
DefaultPort == 993

\* ------------------------------------------------------------ input sets
IdOf(n) == "a" \o ToString(n)      \* the n-th id randomUUID hands out
AccountIds == {IdOf(n) : n \in 1..MaxAccounts}
Addresses  == {"x@ex", "y@ex"}
NoHeader   == ""
Headers    == {NoHeader, "<m1>"}
Categories == {"Interested", "Meeting Booked", "Not Interested", "Spam", "Out of Office"}
ClassifierOutputs == {"Interested", "Not Interested", "undefined"}
StorageBackends == {"mem", "mongo"}
NoSession == 0

VARIABLES
    backend,            \* which IStorage implementation getStorage() returns
    esClient,           \* TRUE iff ELASTICSEARCH_URL was set at module load
    accounts,           \* storage: account id -> record, for registered ids
    nextAccount,        \* number of account ids handed out by randomUUID
    emails,             \* storage: set of Email records
    nextEmailId,        \* number of email ids handed out by randomUUID
    esIndex,            \* the documents (Emails) written to the search index
    activeConnections,  \* registry: account id -> session (NoSession if absent)
    sessions,           \* every Imap object constructed so far
    mailbox,            \* server side: account id -> sequence of message-id headers
    stale,              \* server side: account id -> how many of the oldest messages
                        \* were received more than 30 days before the session opened
    passes,             \* every fetchEmails call so far
    handlers,           \* every msg 'end' handler so far
    posts,              \* POST /api/accounts requests so far
    delReq,             \* DELETE /api/accounts/:id requests in flight
    knowledge,          \* storage: knowledge entry id -> record
    nextKnowledge,      \* number of knowledge ids handed out by randomUUID
    kbReqs,             \* POST and PATCH /api/knowledge requests so far
    search              \* the GET /api/emails request

vars == <<backend, esClient, accounts, nextAccount, emails, nextEmailId, esIndex,
          activeConnections, sessions, mailbox, stale, passes, handlers, posts, delReq,
          knowledge, nextKnowledge, kbReqs, search>>

\* --------------------------------------------------------------- helpers
Range(s) == {s[i] : i \in DOMAIN s}

SeqFromTo(lo, hi) == IF lo > hi THEN <<>> ELSE [j \in 1..(hi - lo + 1) |-> lo + j - 1]

\* a cap that keeps the oldest results: slice(0, n)
SliceFirst(s, n) ==
    IF Len(s) <= n THEN s ELSE SubSeq(s, 1, n)

\* Array.prototype.slice(-n): the last n elements, or all when shorter.
SliceLast(s, n) ==
    IF Len(s) <= n THEN s ELSE SubSeq(s, Len(s) - n + 1, Len(s))

\* `${account.id}-${uid}`
FallbackId(a, uid) == a \o "-" \o ToString(uid)

\* parsed.messageId || `${account.id}-${uid}`
ResolveMessageId(header, a, uid) ==
    IF header = NoHeader THEN FallbackId(a, uid) ELSE header

\* ------------------------------------------------------------- storage
Exists(a) == accounts[a].exists

NoAccount == [exists |-> FALSE, email |-> "", imapPort |-> 0, lastSyncedAt |-> 0]

\* getAccountByEmail: is some stored account registered under this address
AccountByEmail(e) == {a \in AccountIds : Exists(a) /\ accounts[a].email = e}

\* MemStorage.createAccount / MongoStorage.createAccount: the record built
NewAccount(e) ==
    [exists |-> TRUE, email |-> e, imapPort |-> DefaultPort, lastSyncedAt |-> 0]

\* a lookup by message id alone
EmailsByMessageIdOnly(mid, a) ==
    {e \in emails : e.messageId = mid}

\* getEmailByMessageId: the stored records with this (messageId, accountId)
EmailsByMessageId(mid, a) ==
    {e \in emails : e.messageId = mid /\ e.accountId = a}

\* the record find()/findOne() returns among them (the first inserted)
FirstOf(S) == CHOOSE e \in S : \A f \in S : e.id <= f.id

\* no Email returned yet
NoEmail == [id |-> 0, accountId |-> "", messageId |-> "", category |-> ""]

\* the Email a createEmail call builds
NewEmail(a, mid, cat) ==
    [id |-> nextEmailId + 1, accountId |-> a, messageId |-> mid, category |-> cat]

\* MongoStorage: the unique index {messageId, accountId} rejects the insert
DuplicateKey(a, mid) == backend = "mongo" /\ EmailsByMessageId(mid, a) # {}

\* a deleteAccount that forgets the cascade
EmailsWithoutAccountNoCascade(a) == emails

\* deleteEmailsByAccount
EmailsWithoutAccount(a) == {e \in emails : e.accountId # a}

\* a sync time that is set by the first update only
AccountsAfterFirstSyncOnly(a) ==
    IF Exists(a) /\ accounts[a].lastSyncedAt = 0
    THEN [accounts EXCEPT ![a].lastSyncedAt = @ + 1]
    ELSE accounts

\* updateAccountSyncTime; lastSyncedAt counts the writes in place of new Date()
AccountsAfterSyncTime(a) ==
    IF Exists(a)
    THEN [accounts EXCEPT ![a].lastSyncedAt = @ + 1]
    ELSE accounts

\* ------------------------------------------------------------- sessions
\* timer is the keepalive interval of startIDLE; idledIn collects the session
\* states in which a tick of it called imap.idle()
NewSession(a) ==
    [acct |-> a, state |-> "connecting", exists |-> 0, timer |-> "none", idledIn |-> {}]

\* imap.end(): LOGOUT is queued; the 'end' event comes later
EndRequested(st) ==
    IF st \in {"connecting", "authenticated", "nobox", "open"} THEN "ending" ELSE st

\* startIMAPSync: sessions after closing the registered one and constructing a new one
SessionsAfterStart(a) ==
    LET old == activeConnections[a]
        closed == IF old # NoSession
                  THEN [sessions EXCEPT ![old].state = EndRequested(@)]
                  ELSE sessions
    IN Append(closed, NewSession(a))

\* startIMAPSync: activeConnections.set(account.id, imap)
ConnsAfterStart(a) == [activeConnections EXCEPT ![a] = Len(sessions) + 1]

\* stopIMAPSync
SessionsAfterStop(a) ==
    LET s == activeConnections[a]
    IN IF s # NoSession
       THEN [sessions EXCEPT ![s].state = EndRequested(@)]
       ELSE sessions

\* a stop that ends the session and leaves its registry entry
ConnsAfterStopKept(a) == activeConnections

\* stopIMAPSync: activeConnections.delete(accountId) when an entry exists
ConnsAfterStop(a) ==
    IF activeConnections[a] # NoSession
    THEN [activeConnections EXCEPT ![a] = NoSession]
    ELSE activeConnections

\* ------------------------------------------------------- knowledge base
MaxKnowledge == 1     \* knowledge entries ever created
MaxKbReqs    == 3     \* knowledge requests ever issued

KnowledgeIds == 1..MaxKnowledge
Contents == {"c1", "c2"}

\* generateEmbedding: the vector the embedding model returns for a text
Embed(c) == IF c = "c1" THEN <<1, 0>> ELSE IF c = "c2" THEN <<0, 1>> ELSE <<0, 0>>

\* JSON.stringify of a vector of numbers
RECURSIVE Joined(_)
Joined(v) ==
    IF Len(v) = 0 THEN ""
    ELSE IF Len(v) = 1 THEN ToString(v[1])
    ELSE ToString(v[1]) \o "," \o Joined(Tail(v))

Stringify(v) == "[" \o Joined(v) \o "]"

NoEntry == [exists |-> FALSE, content |-> "", embedding |-> ""]

\* createKnowledgeEntry: the entry as stored
NewEntry(c, v) == [exists |-> TRUE, content |-> c, embedding |-> Stringify(v)]

\* an update that stores the new content and keeps the old embedding
UpdatedEntryContentOnly(entry, c, v) == [entry EXCEPT !.content = c]

\* updateKnowledgeEntry: content and embedding are set in one write
UpdatedEntry(entry, c, v) == [entry EXCEPT !.content = c, !.embedding = Stringify(v)]

\* the knowledge store after construction
NoKnowledge ==
    /\ knowledge = [k \in KnowledgeIds |-> NoEntry]
    /\ nextKnowledge = 0
    /\ kbReqs = <<>>

\* ------------------------------------------------------- GET /api/emails
\* searchFiltersSchema without the free-text query: an absent string is "", an
\* absent flag is {}, an absent date is 0; dates are day numbers
NoFilters ==
    [accountId |-> "", folder |-> "", category |-> "", hasAttachments |-> {},
     isRead |-> {}, dateFrom |-> 0, dateTo |-> 0]

NoSearch ==
    [filters |-> NoFilters, gone |-> {}, pc |-> "idle", outcome |-> "none", hits |-> {},
     source |-> "none", status |-> 0, result |-> {}]

\* the query string of the request: each flag is "true", "false" or anything else
FlagStrings == {"", "true", "false", "yes"}

\* req.query.x === "true" ? true : req.query.x === "false" ? false : undefined
ParseFlag(str) == IF str = "true" THEN {TRUE} ELSE IF str = "false" THEN {FALSE} ELSE {}

\* an Email with the fields the filters read
StoredEmail(n, a, mid, cat, att, read, day) ==
    [id |-> n, accountId |-> a, messageId |-> mid, category |-> cat, folder |-> "INBOX",
     hasAttachments |-> att, isRead |-> read, receivedAt |-> day]

\* the "must" clauses searchEmails builds: every supplied filter, dates included
EsMatches(e, f) ==
    /\ f.accountId # "" => e.accountId = f.accountId
    /\ f.folder # "" => e.folder = f.folder
    /\ f.category # "" => e.category = f.category
    /\ f.hasAttachments # {} => e.hasAttachments \in f.hasAttachments
    /\ f.isRead # {} => e.isRead \in f.isRead
    /\ f.dateFrom # 0 => e.receivedAt >= f.dateFrom
    /\ f.dateTo # 0 => e.receivedAt <= f.dateTo

\* the filter callback of the fallback in GET /api/emails
MemoryMatches(e, f) ==
    /\ f.accountId # "" => e.accountId = f.accountId
    /\ f.folder # "" => e.folder = f.folder
    /\ f.category # "" => e.category = f.category
    /\ f.hasAttachments # {} => e.hasAttachments \in f.hasAttachments
    /\ f.isRead # {} => e.isRead \in f.isRead

\* result.hits.hits: the indexed documents that match
EsHits(f) == {e \in esIndex : EsMatches(e, f)}

\* searchEmails as its caller sees it: "off" without a client, "unavailable"
\* when the ping fails, "error" when the search call throws, "ok" otherwise
SearchOutcomes == {"off", "unavailable", "error", "ok"}

\* a searchEmails whose search error reaches the route's catch block
AfterSearchThrown(q, out) ==
    IF out = "error"
    THEN [q EXCEPT !.outcome = out, !.pc = "answered", !.status = 500]
    ELSE LET hits == IF out = "ok" THEN EsHits(q.filters) ELSE {}
         IN IF hits = {}
            THEN [q EXCEPT !.outcome = out, !.pc = "fallback"]
            ELSE [q EXCEPT !.outcome = out, !.hits = hits, !.pc = "answered",
                           !.source = "index", !.status = 200, !.result = hits]

\* the request after await searchEmails(filters): a list in every case, and
\* the fallback is taken when it is empty
AfterSearch(q, out) ==
    LET hits == IF out = "ok" THEN EsHits(q.filters) ELSE {}
    IN IF hits = {}
       THEN [q EXCEPT !.outcome = out, !.pc = "fallback"]
       ELSE [q EXCEPT !.outcome = out, !.hits = hits, !.pc = "answered",
                      !.source = "index", !.status = 200, !.result = hits]

\* every message of every INBOX is less than 30 days old
NoStale == [a \in AccountIds |-> 0]

\* ---------------------------------------------------------------- Init
Init ==
    /\ backend \in StorageBackends
    /\ esClient \in BOOLEAN
    /\ accounts = [a \in AccountIds |-> NoAccount]
    /\ nextAccount = 0
    /\ emails = {}
    /\ nextEmailId = 0
    /\ esIndex = {}
    /\ activeConnections = [a \in AccountIds |-> NoSession]
    /\ sessions = <<>>
    /\ mailbox = [a \in AccountIds |-> <<>>]
    /\ passes = <<>>
    /\ handlers = <<>>
    /\ posts = <<>>
    /\ delReq = [a \in AccountIds |-> "idle"]
    /\ NoKnowledge
    /\ search = NoSearch
    /\ stale = NoStale

storageVars == <<accounts, nextAccount, emails, nextEmailId, esIndex>>
sessionVars == <<activeConnections, sessions>>
envVars     == <<backend, esClient, stale>>
apiVars     == <<knowledge, nextKnowledge, kbReqs, search>>

\* ------------------------------------------------- POST /api/accounts
\* validation and the getAccountByEmail check
\* MemStorage's async methods do no I/O: the awaits of a handler that uses them
\* resume as microtasks, which all run before the callback of another request
MicrotasksPending ==
    /\ backend = "mem"
    /\ \E r \in DOMAIN posts : posts[r].pc \in {"create", "start"}

PostAccountCheck(e) ==
    /\ Len(posts) < MaxAccounts
    /\ ~MicrotasksPending
    /\ posts' = Append(posts,
                  [email |-> e, id |-> "",
                   pc |-> IF AccountByEmail(e) # {} THEN "rejected" ELSE "create"])
    /\ UNCHANGED <<storageVars, sessionVars, envVars, apiVars, mailbox, passes,
                   handlers, delReq>>

\* an accounts collection without the unique index on email
InsertNeverRejected(e) == FALSE

\* MongoStorage: the unique index on email makes insertOne throw; the route
\* answers 400. MemStorage.createAccount stores whatever it is given.
InsertRejected(e) == backend = "mongo" /\ AccountByEmail(e) # {}

\* createAccount
PostAccountCreate(r) ==
    /\ posts[r].pc = "create"
    /\ IF InsertRejected(posts[r].email)
       THEN /\ posts' = [posts EXCEPT ![r].pc = "rejected"]
            /\ UNCHANGED <<accounts, nextAccount>>
       ELSE /\ nextAccount' = nextAccount + 1
            /\ accounts' = [accounts EXCEPT ![IdOf(nextAccount + 1)] = NewAccount(posts[r].email)]
            /\ posts' = [posts EXCEPT ![r].pc = "start", ![r].id = IdOf(nextAccount + 1)]
    /\ UNCHANGED <<emails, nextEmailId, esIndex, sessionVars, envVars, apiVars, mailbox, passes, handlers, delReq>>

\* startIMAPSync(account), then 201
PostAccountStart(r) ==
    /\ posts[r].pc = "start"
    /\ Len(sessions) < MaxSessions
    /\ sessions' = SessionsAfterStart(posts[r].id)
    /\ activeConnections' = ConnsAfterStart(posts[r].id)
    /\ posts' = [posts EXCEPT ![r].pc = "done"]
    /\ UNCHANGED <<storageVars, envVars, apiVars, mailbox, passes, handlers, delReq>>

\* ------------------------------------------------------- startIMAPSync
\* a further call for a stored account (startAllAccounts, or any caller)
StartIMAPSync(a) ==
    /\ Exists(a)
    /\ Len(sessions) < MaxSessions
    /\ sessions' = SessionsAfterStart(a)
    /\ activeConnections' = ConnsAfterStart(a)
    /\ UNCHANGED <<storageVars, envVars, apiVars, mailbox, passes, handlers, posts, delReq>>

\* -------------------------------------------------------- stopIMAPSync
StopIMAPSync(a) ==
    /\ sessions' = SessionsAfterStop(a)
    /\ activeConnections' = ConnsAfterStop(a)
    /\ UNCHANGED <<storageVars, envVars, apiVars, mailbox, passes, handlers, posts, delReq>>

\* --------------------------------------------------- connection events
\* connected and authenticated, no end() requested, no error, not ended
Authenticated(s) == sessions[s].state \in {"authenticated", "nobox", "open"}

Live(s) == sessions[s].state \in {"connecting", "authenticated", "nobox", "open", "ending"}

\* commands already queued still complete after end() queued LOGOUT
Serving(s) == sessions[s].state \in {"open", "ending"}

\* fetchEmails(imap, account, criteria): the search is issued
NewPass(s, crit) ==
    [sess |-> s, acct |-> sessions[s].acct, criteria |-> crit, stage |-> "search",
     uids |-> <<>>, delivered |-> 0, result |-> "pending"]

\* imap.once("ready"): openBox is issued
Ready(s) ==
    /\ sessions[s].state = "connecting"
    /\ sessions' = [sessions EXCEPT ![s].state = "authenticated"]
    /\ UNCHANGED <<storageVars, activeConnections, envVars, apiVars, mailbox, passes,
                   handlers, posts, delReq>>

\* openBox callback: on error return, else fetchEmails(["ALL"]) and startIDLE
OpenBoxDone(s) ==
    /\ sessions[s].state = "authenticated"
    /\ \/ /\ sessions' = [sessions EXCEPT ![s].state = "nobox"]
          /\ UNCHANGED passes
       \/ /\ Len(passes) < MaxPasses
          /\ sessions' = [sessions EXCEPT ![s].state = "open",
                                          ![s].exists = Len(mailbox[sessions[s].acct]),
                                          ![s].timer = "set"]
          /\ passes' = Append(passes, NewPass(s, "ALL"))
    /\ UNCHANGED <<storageVars, activeConnections, envVars, apiVars, mailbox,
                   handlers, posts, delReq>>

\* imap.on("mail"), emitted when the server reports more messages than the
\* session knows of: fetchEmails(["UNSEEN"])
Mail(s) ==
    /\ sessions[s].state = "open"
    /\ Len(mailbox[sessions[s].acct]) > sessions[s].exists
    /\ Len(passes) < MaxPasses
    /\ sessions' = [sessions EXCEPT ![s].exists = Len(mailbox[sessions[s].acct])]
    /\ passes' = Append(passes, NewPass(s, "UNSEEN"))
    /\ UNCHANGED <<storageVars, activeConnections, envVars, apiVars, mailbox, handlers,
                   posts, delReq>>

\* imap.once("error"): logged only
ErrorEvent(s) ==
    /\ Live(s)
    /\ sessions' = [sessions EXCEPT ![s].state = "errored"]
    /\ UNCHANGED <<storageVars, activeConnections, envVars, apiVars, mailbox, passes,
                   handlers, posts, delReq>>

\* imap.once("end"): activeConnections.delete(account.id); the end event and
\* the close of the socket that follows it are one step
EndEvent(s) ==
    /\ Live(s)
    /\ sessions' = [sessions EXCEPT ![s].state = "ended"]
    /\ activeConnections' = [activeConnections EXCEPT ![sessions[s].acct] = NoSession]
    /\ UNCHANGED <<storageVars, envVars, apiVars, mailbox, passes, handlers, posts, delReq>>

\* The values imap.state can have when a tick reads it: "authenticated" from
\* the login until the socket has closed. end() only queues LOGOUT and an
\* error may or may not take the socket down, so a session that was asked to
\* end or has failed reads either way.
ImapStates(st) ==
    IF st \in {"authenticated", "nobox", "open"} THEN {"authenticated"}
    ELSE IF st \in {"ending", "errored"} THEN {"authenticated", "disconnected"}
    ELSE {"disconnected"}

\* a tick that calls imap.idle() whatever the state of the session
TickedBlind(sess, st) == [sess EXCEPT !.idledIn = @ \cup {sess.state}]

\* the interval callback: imap.idle() when imap.state is "authenticated",
\* clearInterval otherwise
Ticked(sess, st) ==
    IF st = "authenticated"
    THEN [sess EXCEPT !.idledIn = @ \cup {sess.state}]
    ELSE [sess EXCEPT !.timer = "cleared"]

\* setInterval fires, every 10 minutes until it is cleared
KeepaliveTick(s) ==
    /\ sessions[s].timer = "set"
    /\ \E st \in ImapStates(sessions[s].state) :
         sessions' = [sessions EXCEPT ![s] = Ticked(@, st)]
    /\ UNCHANGED <<storageVars, activeConnections, envVars, apiVars, mailbox, passes,
                   handlers, posts, delReq>>

\* the mail server stores a new message in the account's INBOX
Deliver(a, hdr) ==
    /\ Exists(a)
    /\ Len(mailbox[a]) < MaxMail
    /\ mailbox' = [mailbox EXCEPT ![a] = Append(@, hdr)]
    /\ UNCHANGED <<storageVars, sessionVars, envVars, apiVars, passes, handlers,
                   posts, delReq>>

\* ---------------------------------------------- DELETE /api/accounts/:id
\* stopIMAPSync(id), then deleteAccount(id); MemStorage runs it without yielding
DeleteAccountRoute(a) ==
    /\ delReq[a] = "idle"
    /\ sessions' = SessionsAfterStop(a)
    /\ activeConnections' = ConnsAfterStop(a)
    /\ IF backend = "mem"
       THEN /\ accounts' = [accounts EXCEPT ![a] = NoAccount]
            /\ emails' = IF Exists(a) THEN EmailsWithoutAccount(a) ELSE emails
            /\ UNCHANGED delReq
       ELSE /\ delReq' = [delReq EXCEPT ![a] = "deleteOne"]
            /\ UNCHANGED <<accounts, emails>>
    /\ UNCHANGED <<nextAccount, nextEmailId, esIndex, envVars, apiVars, mailbox,
                   passes, handlers, posts>>

\* MongoStorage.deleteAccount: accountsCollection.deleteOne
MongoDeleteOne(a) ==
    /\ delReq[a] = "deleteOne"
    /\ accounts' = [accounts EXCEPT ![a] = NoAccount]
    /\ delReq' = [delReq EXCEPT ![a] = IF Exists(a) THEN "deleteMany" ELSE "idle"]
    /\ UNCHANGED <<nextAccount, emails, nextEmailId, esIndex, sessionVars, envVars, apiVars,
                   mailbox, passes, handlers, posts>>

\* MongoStorage.deleteEmailsByAccount: emailsCollection.deleteMany; returns true
MongoDeleteMany(a) ==
    /\ delReq[a] = "deleteMany"
    /\ emails' = EmailsWithoutAccount(a)
    /\ delReq' = [delReq EXCEPT ![a] = "idle"]
    /\ UNCHANGED <<accounts, nextAccount, nextEmailId, esIndex, sessionVars, envVars, apiVars,
                   mailbox, passes, handlers, posts>>

\* ---------------------------------------------------------- fetchEmails
\* the uids the server returns for the criteria, oldest first; no message of
\* the modelled mailboxes carries \Seen (the fetch is issued without markSeen),
\* so UNSEEN and ALL select the same messages
SearchResults(a, crit) == SeqFromTo(1, Len(mailbox[a]))

\* the uids handed to imap.fetch: results.slice(-100)
FetchUids(results) == SliceLast(results, BatchCap)

\* the handler msg.once("end") starts, with the body and the uid received
NewHandler(p, uid) ==
    [pass |-> p, acct |-> passes[p].acct, uid |-> uid,
     header |-> mailbox[passes[p].acct][uid],
     pc |-> "parse", fail |-> "none", messageId |-> "", category |-> "none",
     classifyCalls |-> 0, created |-> FALSE, emailId |-> 0, email |-> NoEmail,
     index |-> "idle", indexWrites |-> 0,
     slack |-> "idle", webhook |-> "idle", slackCalls |-> 0, webhookCalls |-> 0,
     syncWrites |-> 0]

\* a fetch that emits no message event for the last uid it was given
NewHandlersButLast(p, uids, k) == [j \in 1..(k - 1) |-> NewHandler(p, uids[j])]

\* the handlers started for the first k uids of the pass
NewHandlers(p, uids, k) == [j \in 1..k |-> NewHandler(p, uids[j])]

\* The search callback and the message events it leads to: a search error is
\* logged, no result is logged as "no new emails", else the last BatchCap uids
\* are fetched.  A handler's first act is to await the parser, so the 'end'
\* events of the pass are folded into this step; k < Len(uids) is a pass cut
\* short (fetch 'error', connection lost).
SearchDone(p) ==
    /\ passes[p].stage = "search"
    /\ Serving(passes[p].sess)
    /\ \/ /\ passes' = [passes EXCEPT ![p].stage = "done", ![p].result = "error"]
          /\ UNCHANGED handlers
       \/ /\ Len(SearchResults(passes[p].acct, passes[p].criteria)) = 0
          /\ passes' = [passes EXCEPT ![p].stage = "done", ![p].result = "none"]
          /\ UNCHANGED handlers
       \/ LET results == SearchResults(passes[p].acct, passes[p].criteria)
              uids == FetchUids(results)
          IN /\ Len(results) > 0
             /\ \E k \in 0..Len(uids) :
                  /\ Len(handlers) + k <= MaxHandlers
                  /\ passes' = [passes EXCEPT ![p].stage = "done", ![p].uids = uids,
                                              ![p].delivered = k,
                                              ![p].result = "fetched"]
                  /\ handlers' = handlers \o NewHandlers(p, uids, k)
    /\ UNCHANGED <<storageVars, sessionVars, envVars, apiVars, mailbox, posts, delReq>>

\* ------------------------------------------------- msg.once("end") handler
otherVars == <<nextAccount, sessionVars, envVars, apiVars, mailbox, passes, posts, delReq>>

\* a classifier failure that falls back to an uncategorised record
FailedOpen(h, why) ==
    IF why = "classify"
    THEN [h EXCEPT !.fail = why, !.category = "undefined", !.pc = "create"]
    ELSE [h EXCEPT !.pc = "failed", !.fail = why]

\* a throw inside the handler's try block: the handler ends there
Failed(h, why) == [h EXCEPT !.pc = "failed", !.fail = why]

\* an error that aborts the batch: every unfinished handler of the pass ends
CaughtByBatch(hs, i, why) ==
    [j \in DOMAIN hs |->
       IF hs[j].pass = hs[i].pass /\ hs[j].pc \notin {"done", "skipped", "failed"}
       THEN [hs[j] EXCEPT !.pc = "failed", !.fail = why]
       ELSE hs[j]]

\* catch (error) { console.error(...) }: the error is caught inside the handler
\* that raised it and reaches no other handler
Caught(hs, i, why) == [hs EXCEPT ![i] = Failed(@, why)]

\* insertEmail.category ?? null
StoredCategory(c) == IF c = "undefined" THEN "null" ELSE c

\* an existence check whose result is ignored
AfterExistenceCheckIgnored(h, mid) == [h EXCEPT !.messageId = mid, !.pc = "categorize"]

\* the handler after `existing` has been read: return when it exists
AfterExistenceCheck(h, mid) ==
    IF EmailsByMessageId(mid, h.acct) # {}
    THEN [h EXCEPT !.messageId = mid, !.pc = "skipped"]
    ELSE [h EXCEPT !.messageId = mid, !.pc = "categorize"]

\* simpleParser(buffer), messageId resolution, getEmailByMessageId
ParseAndCheck(i) ==
    /\ handlers[i].pc = "parse"
    /\ \/ handlers' = Caught(handlers, i, "parse")
       \/ handlers' = [handlers EXCEPT
                         ![i] = AfterExistenceCheck(@, ResolveMessageId(@.header, @.acct, @.uid))]
    /\ UNCHANGED <<storageVars, otherVars>>

\* categorizeEmail: throws, or returns the category of the response
Categorize(i) ==
    /\ handlers[i].pc = "categorize"
    /\ \/ handlers' = Caught([handlers EXCEPT ![i].classifyCalls = @ + 1], i, "classify")
       \/ \E c \in ClassifierOutputs :
            handlers' = [handlers EXCEPT ![i].classifyCalls = @ + 1,
                                         ![i].category = c, ![i].pc = "create"]
    /\ UNCHANGED <<storageVars, otherVars>>

\* what createEmail does with an insert whose key is already stored
AfterDuplicate(h) == [h EXCEPT !.pc = "reread"]

\* createEmail: MemStorage sets the map; MongoStorage inserts under the unique index
CreateEmail(i) ==
    /\ handlers[i].pc = "create"
    /\ LET h == handlers[i]
           e == NewEmail(h.acct, h.messageId, StoredCategory(h.category))
       IN \/ /\ backend = "mongo"
             /\ handlers' = Caught(handlers, i, "persist")
             /\ UNCHANGED <<emails, nextEmailId>>
          \/ /\ DuplicateKey(h.acct, h.messageId)
             /\ handlers' = [handlers EXCEPT ![i] = AfterDuplicate(@)]
             /\ UNCHANGED <<emails, nextEmailId>>
          \/ /\ ~DuplicateKey(h.acct, h.messageId)
             /\ emails' = emails \cup {e}
             /\ nextEmailId' = nextEmailId + 1
             /\ handlers' = [handlers EXCEPT ![i].created = TRUE, ![i].emailId = e.id,
                                             ![i].email = e, ![i].pc = "index"]
    /\ UNCHANGED <<accounts, esIndex, otherVars>>

\* MongoStorage.createEmail after error 11000: return the existing record or rethrow
Reread(i) ==
    /\ handlers[i].pc = "reread"
    /\ LET h == handlers[i]
           found == EmailsByMessageId(h.messageId, h.acct)
       IN IF found = {}
          THEN handlers' = Caught(handlers, i, "persist")
          ELSE handlers' = [handlers EXCEPT ![i].emailId = FirstOf(found).id,
                                            ![i].email = FirstOf(found),
                                            ![i].pc = "index"]
    /\ UNCHANGED <<storageVars, otherVars>>

\* a handler that updates the sync time right after the index write
AfterIndexUnnotified(h) == [h EXCEPT !.pc = "synctime"]

\* the step after `await indexEmail(email)`
AfterIndex(h) ==
    [h EXCEPT !.pc = IF h.category = "Interested" THEN "notify" ELSE "synctime"]

\* indexEmail as the handler sees it: "off" when no client is configured, "error"
\* when the index is unavailable or the write failed (swallowed), "ok" when the
\* document was written
IndexOutcomes == {"off", "error", "ok"}

\* an index failure that reaches the handler's catch block
IndexedOrThrown(h, out) ==
    IF out = "error"
    THEN Failed([h EXCEPT !.index = out], "index")
    ELSE AfterIndex([h EXCEPT !.index = out,
                              !.indexWrites = IF out = "ok" THEN @ + 1 ELSE @])

\* the handler after await indexEmail(email): the call always resolves
Indexed(h, out) ==
    AfterIndex([h EXCEPT !.index = out,
                         !.indexWrites = IF out = "ok" THEN @ + 1 ELSE @])

\* indexEmail: no client, or unavailable / error (swallowed), or the document is written
IndexEmail(i) ==
    /\ handlers[i].pc = "index"
    /\ \E out \in IndexOutcomes :
         /\ (out = "off") = ~esClient
         /\ esIndex' = IF out = "ok" THEN esIndex \cup {handlers[i].email} ELSE esIndex
         /\ handlers' = [handlers EXCEPT ![i] = Indexed(@, out)]
    /\ UNCHANGED <<accounts, emails, nextEmailId, otherVars>>

\* sendSlackNotification / sendWebhook as the handler sees them: "ok" when the
\* function returned after posting or because its URL is unset, "error" when
\* axios.post failed and the function caught and logged it
NotifyOutcomes == {"ok", "error"}

\* notifications sent one after the other, the second only if the first succeeded
AfterNotifyChained(h, sl, wh) ==
    IF sl = "error"
    THEN [h EXCEPT !.slack = sl, !.slackCalls = @ + 1, !.pc = "synctime"]
    ELSE [h EXCEPT !.slack = sl, !.webhook = wh,
                   !.slackCalls = @ + 1, !.webhookCalls = @ + 1,
                   !.pc = "synctime"]

\* the handler after Promise.all([sendSlackNotification(email), sendWebhook(email)])
AfterNotify(h, sl, wh) ==
    [h EXCEPT !.slack = sl, !.webhook = wh,
              !.slackCalls = @ + 1, !.webhookCalls = @ + 1,
              !.pc = "synctime"]

\* both functions are called, each settles on its own, then Promise.all resolves
Notify(i) ==
    /\ handlers[i].pc = "notify"
    /\ \E sl \in NotifyOutcomes, wh \in NotifyOutcomes :
         handlers' = [handlers EXCEPT ![i] = AfterNotify(@, sl, wh)]
    /\ UNCHANGED <<storageVars, otherVars>>

\* updateAccountSyncTime(account.id)
UpdateSyncTime(i) ==
    /\ handlers[i].pc = "synctime"
    /\ accounts' = AccountsAfterSyncTime(handlers[i].acct)
    /\ handlers' = [handlers EXCEPT ![i].syncWrites = @ + 1, ![i].pc = "done"]
    /\ UNCHANGED <<emails, nextEmailId, esIndex, otherVars>>

\* ------------------------------------------------------ specifications
\* Registration requests, from the state after construction.
NextAccounts ==
    \/ \E e \in Addresses : PostAccountCheck(e)
    \/ \E r \in DOMAIN posts : PostAccountCreate(r)
    \/ \E r \in DOMAIN posts : PostAccountStart(r)

SpecAccounts == Init /\ [][NextAccounts]_vars

\* Both accounts registered, their sessions just ready: the state SpecRegistry
\* reaches after two registrations and two ready events.
Registered(boxes) ==
    /\ backend \in StorageBackends
    /\ esClient \in BOOLEAN
    /\ accounts = [a \in AccountIds |->
                     IF a = "a1" THEN NewAccount("x@ex")
                     ELSE IF a = "a2" THEN NewAccount("y@ex") ELSE NoAccount]
    /\ nextAccount = 2
    /\ emails = {}
    /\ nextEmailId = 0
    /\ esIndex = {}
    /\ activeConnections = [a \in AccountIds |->
                              IF a = "a1" THEN 1 ELSE IF a = "a2" THEN 2 ELSE NoSession]
    /\ sessions = <<[NewSession("a1") EXCEPT !.state = "authenticated"],
                    [NewSession("a2") EXCEPT !.state = "authenticated"]>>
    /\ mailbox \in boxes
    /\ passes = <<>>
    /\ handlers = <<>>
    /\ posts = <<[email |-> "x@ex", id |-> "a1", pc |-> "done"],
                 [email |-> "y@ex", id |-> "a2", pc |-> "done"]>>
    /\ delReq = [a \in AccountIds |-> "idle"]
    /\ NoKnowledge
    /\ search = NoSearch

\* The registry: the session life cycle of two registered accounts, from the
\* state in which no session has been started yet.
InitRegistry ==
    /\ backend \in StorageBackends
    /\ esClient \in BOOLEAN
    /\ accounts = [a \in AccountIds |->
                     IF a = "a1" THEN NewAccount("x@ex")
                     ELSE IF a = "a2" THEN NewAccount("y@ex") ELSE NoAccount]
    /\ nextAccount = 2
    /\ emails = {}
    /\ nextEmailId = 0
    /\ esIndex = {}
    /\ activeConnections = [a \in AccountIds |-> NoSession]
    /\ sessions = <<>>
    /\ mailbox = [a \in AccountIds |-> <<>>]
    /\ passes = <<>>
    /\ handlers = <<>>
    /\ posts = <<[email |-> "x@ex", id |-> "a1", pc |-> "done"],
                 [email |-> "y@ex", id |-> "a2", pc |-> "done"]>>
    /\ delReq = [a \in AccountIds |-> "idle"]
    /\ NoKnowledge
    /\ search = NoSearch
    /\ stale = NoStale

NextRegistry ==
    \/ \E a \in AccountIds : StartIMAPSync(a)
    \/ \E a \in AccountIds : StopIMAPSync(a)
    \/ \E s \in DOMAIN sessions : Ready(s)
    \/ \E s \in DOMAIN sessions : OpenBoxDone(s)
    \/ \E s \in DOMAIN sessions : ErrorEvent(s)
    \/ \E s \in DOMAIN sessions : EndEvent(s)

SpecRegistry == InitRegistry /\ [][NextRegistry]_vars

\* The keepalive timers of two sessions that are stopped, fail or end.
InitKeepalive ==
    /\ Registered({[a \in AccountIds |-> <<>>]})
    /\ stale = NoStale

NextKeepalive ==
    \/ \E s \in {1, 2} : OpenBoxDone(s)
    \/ \E s \in {1, 2} : KeepaliveTick(s)
    \/ \E a \in {"a1", "a2"} : StopIMAPSync(a)
    \/ \E s \in {1, 2} : ErrorEvent(s)
    \/ \E s \in {1, 2} : EndEvent(s)

SpecKeepalive == InitKeepalive /\ [][NextKeepalive]_vars

\* Connection loss without any start or stop request: the sessions open their
\* inboxes, tick, fail and end; every step that can be taken is taken.
NextLoss ==
    \/ \E s \in {1, 2} : OpenBoxDone(s)
    \/ \E s \in {1, 2} : KeepaliveTick(s)
    \/ \E s \in {1, 2} : ErrorEvent(s)
    \/ \E s \in {1, 2} : EndEvent(s)

SpecLoss == InitKeepalive /\ [][NextLoss]_vars /\ WF_vars(NextLoss)

\* sequences over S of length at most n
\* The inboxes studied: up to n messages, the first two a message and its copy
\* under one message-id header, the later ones without a header.
Inboxes(n) ==
    {[j \in 1..k |-> IF j <= 2 THEN "<m1>" ELSE NoHeader] : k \in 0..n}

\* The pipeline of two accounts: mail arrives while the sessions run.
InitSync == Registered({[a \in AccountIds |-> <<>>]}) /\ stale = NoStale

Next ==
    \/ \E a \in AccountIds, hdr \in Headers : Deliver(a, hdr)
    \/ \E s \in DOMAIN sessions : OpenBoxDone(s)
    \/ \E s \in DOMAIN sessions : Mail(s)
    \/ \E p \in DOMAIN passes : SearchDone(p)
    \/ \E i \in DOMAIN handlers : ParseAndCheck(i)
    \/ \E i \in DOMAIN handlers : Categorize(i)
    \/ \E i \in DOMAIN handlers : CreateEmail(i)
    \/ \E i \in DOMAIN handlers : Reread(i)
    \/ \E i \in DOMAIN handlers : IndexEmail(i)
    \/ \E i \in DOMAIN handlers : Notify(i)
    \/ \E i \in DOMAIN handlers : UpdateSyncTime(i)

Spec == InitSync /\ [][Next]_vars

\* One fetch pass: the inbox of a1 already holds up to MaxBatch messages when
\* its session opens it.
InitPass ==
    /\ Registered({[a \in AccountIds |-> IF a = "a1" THEN q ELSE <<>>] :
                     q \in Inboxes(MaxBatch)})
    /\ stale = NoStale

NextPass ==
    \/ OpenBoxDone(1)
    \/ \E p \in DOMAIN passes : SearchDone(p)
    \/ \E i \in DOMAIN handlers : ParseAndCheck(i)
    \/ \E i \in DOMAIN handlers : Categorize(i)
    \/ \E i \in DOMAIN handlers : CreateEmail(i)
    \/ \E i \in DOMAIN handlers : Reread(i)
    \/ \E i \in DOMAIN handlers : IndexEmail(i)
    \/ \E i \in DOMAIN handlers : Notify(i)
    \/ \E i \in DOMAIN handlers : UpdateSyncTime(i)

SpecPass == InitPass /\ [][NextPass]_vars

\* One fetch pass in which every callback and every continuation that is
\* ready to run does run: the event loop does not starve a ready task. The
\* search index is not configured.
InitPassFair == InitPass /\ ~esClient

SpecPassFair == InitPassFair /\ [][NextPass]_vars /\ WF_vars(NextPass)

\* The initial pass over an inbox whose oldest messages, any number of them,
\* were received more than 30 days before the session opened it.
InitWindow ==
    /\ Registered({[a \in AccountIds |-> IF a = "a1" THEN q ELSE <<>>] :
                     q \in Inboxes(MaxBatch)})
    /\ stale \in [AccountIds -> 0..MaxBatch]
    /\ \A a \in AccountIds : stale[a] <= Len(mailbox[a])

SpecWindow == InitWindow /\ [][NextPass]_vars

\* The same message delivered to two accounts: each inbox holds one message
\* with the message-id header "<m1>" when its session opens it. No pair is
\* fetched twice, so the duplicate-key path of createEmail is not reached.
InitPair ==
    /\ Registered({[a \in AccountIds |-> IF a \in {"a1", "a2"} THEN <<"<m1>">> ELSE <<>>]})
    /\ stale = NoStale

NextPair ==
    \/ \E s \in {1, 2} : OpenBoxDone(s)
    \/ \E p \in DOMAIN passes : SearchDone(p)
    \/ \E i \in DOMAIN handlers : ParseAndCheck(i)
    \/ \E i \in DOMAIN handlers : Categorize(i)
    \/ \E i \in DOMAIN handlers : CreateEmail(i)
    \/ \E i \in DOMAIN handlers : IndexEmail(i)
    \/ \E i \in DOMAIN handlers : Notify(i)
    \/ \E i \in DOMAIN handlers : UpdateSyncTime(i)

SpecPair == InitPair /\ [][NextPair]_vars

\* The passes of one account, initial and incremental. Either the inbox of a1
\* already holds its messages when the session opens it (InitPass), or the
\* session opened an empty inbox, its initial pass found nothing, and up to
\* MaxBatch messages have arrived since whose mail event is still to come.
InitIncremental ==
    /\ backend \in StorageBackends
    /\ esClient \in BOOLEAN
    /\ accounts = [a \in AccountIds |->
                     IF a = "a1" THEN NewAccount("x@ex")
                     ELSE IF a = "a2" THEN NewAccount("y@ex") ELSE NoAccount]
    /\ nextAccount = 2
    /\ emails = {}
    /\ nextEmailId = 0
    /\ esIndex = {}
    /\ activeConnections = [a \in AccountIds |->
                              IF a = "a1" THEN 1 ELSE IF a = "a2" THEN 2 ELSE NoSession]
    /\ sessions = <<[NewSession("a1") EXCEPT !.state = "open", !.timer = "set"],
                    [NewSession("a2") EXCEPT !.state = "authenticated"]>>
    /\ mailbox \in {[a \in AccountIds |-> IF a = "a1" THEN q ELSE <<>>] :
                       q \in Inboxes(MaxBatch) \ {<<>>}}
    /\ passes = <<[sess |-> 1, acct |-> "a1", criteria |-> "ALL", stage |-> "done",
                   uids |-> <<>>, delivered |-> 0, result |-> "none"]>>
    /\ handlers = <<>>
    /\ posts = <<[email |-> "x@ex", id |-> "a1", pc |-> "done"],
                 [email |-> "y@ex", id |-> "a2", pc |-> "done"]>>
    /\ delReq = [a \in AccountIds |-> "idle"]
    /\ NoKnowledge
    /\ search = NoSearch
    /\ stale = NoStale

NextSync ==
    \/ NextPass
    \/ Mail(1)

SpecSync == (InitPass \/ InitIncremental) /\ [][NextSync]_vars

\* The batch cap: the inbox of a1 holds up to MaxResults messages.
InitCap ==
    /\ Registered({[a \in AccountIds |->
                      IF a = "a1" THEN [j \in 1..n |-> NoHeader] ELSE <<>>] :
                     n \in 0..MaxResults})
    /\ stale = NoStale

NextCap ==
    \/ OpenBoxDone(1)
    \/ \E p \in DOMAIN passes : SearchDone(p)

SpecCap == InitCap /\ [][NextCap]_vars

\* Account deletion against the steps of the pipeline that read or write the
\* email store: the inbox of a1 holds up to MaxBatch messages and that of a2
\* one message when the sessions open. The requests delete registered
\* accounts; the search index is not configured.
InitDelete ==
    /\ Registered({[a \in AccountIds |-> IF a = "a1" THEN q ELSE <<"<m1>">>] :
                     q \in Inboxes(MaxBatch)})
    /\ ~esClient
    /\ stale = NoStale

NextDelete ==
    \/ \E s \in DOMAIN sessions : OpenBoxDone(s)
    \/ \E p \in DOMAIN passes : SearchDone(p)
    \/ \E i \in DOMAIN handlers : ParseAndCheck(i)
    \/ \E i \in DOMAIN handlers : Categorize(i)
    \/ \E i \in DOMAIN handlers : CreateEmail(i)
    \/ \E i \in DOMAIN handlers : Reread(i)
    \/ \E a \in AccountIds : Exists(a) /\ DeleteAccountRoute(a)
    \/ \E a \in AccountIds : MongoDeleteOne(a)
    \/ \E a \in AccountIds : MongoDeleteMany(a)

SpecDelete == InitDelete /\ [][NextDelete]_vars

\* ---------------------------------------------------- /api/knowledge
syncVars == <<storageVars, sessionVars, envVars, mailbox, passes, handlers, posts, delReq>>

\* POST /api/knowledge: the body is valid, generateEmbedding is called
PostKnowledge(c) ==
    /\ Len(kbReqs) < MaxKbReqs
    /\ Cardinality({r \in DOMAIN kbReqs : kbReqs[r].kind = "create"}) < MaxKnowledge
    /\ kbReqs' = Append(kbReqs, [kind |-> "create", id |-> 0, content |-> c,
                                 vector |-> <<>>, pc |-> "embed"])
    /\ UNCHANGED <<syncVars, search, knowledge, nextKnowledge>>

\* PATCH /api/knowledge/:id: 400 without a content string, else generateEmbedding
PatchKnowledge(k, c) ==
    /\ Len(kbReqs) < MaxKbReqs
    /\ kbReqs' = Append(kbReqs, [kind |-> "update", id |-> k, content |-> c,
                                 vector |-> <<>>,
                                 pc |-> IF c = "" THEN "rejected" ELSE "embed"])
    /\ UNCHANGED <<syncVars, search, knowledge, nextKnowledge>>

\* generateEmbedding resolves with the vector of the request's content, or throws
EmbeddingDone(r) ==
    /\ kbReqs[r].pc = "embed"
    /\ \/ kbReqs' = [kbReqs EXCEPT ![r].pc = "failed"]
       \/ kbReqs' = [kbReqs EXCEPT ![r].pc = "store",
                                   ![r].vector = Embed(kbReqs[r].content)]
    /\ UNCHANGED <<syncVars, search, knowledge, nextKnowledge>>

\* createKnowledgeEntry / updateKnowledgeEntry: one write of the store
StoreKnowledge(r) ==
    /\ kbReqs[r].pc = "store"
    /\ IF kbReqs[r].kind = "create"
       THEN /\ nextKnowledge' = nextKnowledge + 1
            /\ knowledge' = [knowledge EXCEPT ![nextKnowledge + 1] =
                                NewEntry(kbReqs[r].content, kbReqs[r].vector)]
            /\ kbReqs' = [kbReqs EXCEPT ![r].pc = "done", ![r].id = nextKnowledge + 1]
       ELSE IF knowledge[kbReqs[r].id].exists
       THEN /\ knowledge' = [knowledge EXCEPT ![kbReqs[r].id] =
                                UpdatedEntry(@, kbReqs[r].content, kbReqs[r].vector)]
            /\ kbReqs' = [kbReqs EXCEPT ![r].pc = "done"]
            /\ UNCHANGED nextKnowledge
       ELSE /\ kbReqs' = [kbReqs EXCEPT ![r].pc = "notfound"]
            /\ UNCHANGED <<knowledge, nextKnowledge>>
    /\ UNCHANGED <<syncVars, search>>

\* DELETE /api/knowledge/:id
DeleteKnowledge(k) ==
    /\ knowledge[k].exists
    /\ knowledge' = [knowledge EXCEPT ![k] = NoEntry]
    /\ UNCHANGED <<syncVars, search, nextKnowledge, kbReqs>>

NextKnowledge ==
    \/ \E c \in Contents : PostKnowledge(c)
    \/ \E k \in KnowledgeIds, c \in Contents \cup {""} : PatchKnowledge(k, c)
    \/ \E r \in DOMAIN kbReqs : EmbeddingDone(r)
    \/ \E r \in DOMAIN kbReqs : StoreKnowledge(r)
    \/ \E k \in KnowledgeIds : DeleteKnowledge(k)

\* the knowledge routes use neither the sessions nor the search index
InitKnowledge == Init /\ ~esClient

SpecKnowledge == InitKnowledge /\ [][NextKnowledge]_vars

\* ------------------------------------------------------ GET /api/emails
FilterValues ==
    [accountId : {"", "a1"}, folder : {"", "Sent"}, category : {"", "Interested"},
     hasAttachments : {ParseFlag(x) : x \in FlagStrings},
     isRead : {ParseFlag(x) : x \in FlagStrings},
     dateFrom : {0, 2}, dateTo : {0, 2}]

\* the accounts that were registered and whose deletion has finished
DeletedAccounts ==
    {a \in AccountIds : /\ ~Exists(a)
                         /\ delReq[a] = "idle"
                         /\ \E r \in DOMAIN posts : posts[r].id = a}

\* the request arrives and, once parsed, searchEmails is called; gone records
\* the accounts already deleted at that time
GetEmails(f) ==
    /\ search.pc = "idle"
    /\ search' = [NoSearch EXCEPT !.filters = f, !.gone = DeletedAccounts, !.pc = "search"]
    /\ UNCHANGED <<syncVars, knowledge, nextKnowledge, kbReqs>>

\* searchEmails returns
SearchEmailsDone ==
    /\ search.pc = "search"
    /\ \E out \in SearchOutcomes :
         /\ (out = "off") = ~esClient
         /\ search' = AfterSearch(search, out)
    /\ UNCHANGED <<syncVars, knowledge, nextKnowledge, kbReqs>>

\* getAllEmails, filter, sort, res.json
Fallback ==
    /\ search.pc = "fallback"
    /\ search' = [search EXCEPT !.pc = "answered", !.source = "storage", !.status = 200,
                                !.result = {e \in emails : MemoryMatches(e, search.filters)}]
    /\ UNCHANGED <<syncVars, knowledge, nextKnowledge, kbReqs>>

\* Emails the two accounts may hold after some syncing and reading
SampleEmails ==
    {StoredEmail(1, "a1", "<m1>", "Interested", FALSE, FALSE, 1),
     StoredEmail(2, "a1", "a1-2", "Spam", TRUE, TRUE, 3),
     StoredEmail(3, "a2", "<m1>", "Interested", FALSE, TRUE, 2)}

InitSearch ==
    /\ backend \in StorageBackends
    /\ esClient \in BOOLEAN
    /\ accounts = [a \in AccountIds |->
                     IF a = "a1" THEN NewAccount("x@ex")
                     ELSE IF a = "a2" THEN NewAccount("y@ex") ELSE NoAccount]
    /\ nextAccount = 2
    /\ emails \in SUBSET SampleEmails
    /\ nextEmailId = 3
    /\ esIndex \in SUBSET emails
    /\ esClient \/ esIndex = {}
    /\ activeConnections = [a \in AccountIds |-> NoSession]
    /\ sessions = <<>>
    /\ mailbox = [a \in AccountIds |-> <<>>]
    /\ passes = <<>>
    /\ handlers = <<>>
    /\ posts = <<[email |-> "x@ex", id |-> "a1", pc |-> "done"],
                 [email |-> "y@ex", id |-> "a2", pc |-> "done"]>>
    /\ delReq = [a \in AccountIds |-> "idle"]
    /\ NoKnowledge
    /\ search = NoSearch
    /\ stale = NoStale

NextSearch ==
    \/ \E f \in FilterValues : GetEmails(f)
    \/ SearchEmailsDone
    \/ Fallback

SpecSearch == InitSearch /\ [][NextSearch]_vars

\* Account deletion against GET /api/emails: the accounts hold stored and
\* indexed Emails, accounts are deleted, and a request without filters or
\* with an account filter is answered.
PurgeFilters == {[NoFilters EXCEPT !.accountId = a] : a \in {"", "a1"}}

NextPurge ==
    \/ \E a \in AccountIds : Exists(a) /\ DeleteAccountRoute(a)
    \/ \E a \in AccountIds : MongoDeleteOne(a)
    \/ \E a \in AccountIds : MongoDeleteMany(a)
    \/ \E f \in PurgeFilters : GetEmails(f)
    \/ SearchEmailsDone
    \/ Fallback

SpecPurge == InitSearch /\ [][NextPurge]_vars

\* ============================================================ properties
SamePair(i, j) ==
    /\ handlers[i].acct = handlers[j].acct
    /\ handlers[i].messageId = handlers[j].messageId
    /\ handlers[i].messageId # ""

\* C1: storage never holds two Email records with the same (messageId,
\* accountId), whatever the interleaving of the message handlers.
UniqueMessageIdPerAccount ==
    \A e \in emails, f \in emails :
        (e.messageId = f.messageId /\ e.accountId = f.accountId) => e.id = f.id

\* C2: a createEmail call for a (messageId, accountId) that is already stored
\* adds no record and, when it returns, returns the stored record.
CreateEmailIdempotent ==
    [][\A i \in DOMAIN handlers :
         ( /\ handlers[i].pc = "create"
           /\ handlers'[i].pc # "create"
           /\ EmailsByMessageId(handlers[i].messageId, handlers[i].acct) # {} )
         => ( /\ emails' = emails
              /\ ~handlers'[i].created
              /\ handlers'[i].pc = "index" =>
                   handlers'[i].emailId \in
                     {e.id : e \in EmailsByMessageId(handlers[i].messageId, handlers[i].acct)} )
      ]_vars

\* C3: per account id at most one session is connected and neither asked to
\* end, failed nor ended (the weakest reading of "connected and not yet ended").
OneLiveSessionPerAccount ==
    \A s \in DOMAIN sessions, t \in DOMAIN sessions :
        (Authenticated(s) /\ Authenticated(t) /\ sessions[s].acct = sessions[t].acct)
            => s = t

\* C4: the step in which deleteAccount(a) returns true leaves no Email of a in
\* storage and leaves the Emails of every other account as they were.
DeleteSucceeds(a) ==
    \/ backend = "mem" /\ accounts[a].exists /\ ~accounts'[a].exists
    \/ delReq[a] = "deleteMany" /\ delReq'[a] = "idle"

CascadeDelete ==
    [][\A a \in AccountIds :
         DeleteSucceeds(a) =>
           /\ \A e \in emails' : e.accountId # a
           /\ {e \in emails' : e.accountId # a} = {e \in emails : e.accountId # a}
      ]_vars

\* C4 witness: an account whose handler had stored an Email has been deleted,
\* none of its Emails is left and another account still has one.
CascadeDeleteWitness ==
    \E a \in AccountIds :
        /\ ~Exists(a)
        /\ delReq[a] = "idle"
        /\ \E i \in DOMAIN handlers : handlers[i].acct = a /\ handlers[i].created
        /\ \A e \in emails : e.accountId # a
        /\ \E e \in emails : e.accountId # a

\* C5: a handler that newly persisted its message calls the chat notification
\* and the webhook exactly once each when the category is Interested, also
\* when one of the two fails, and calls neither for any other category.
NotificationGate ==
    \A i \in DOMAIN handlers :
        LET h == handlers[i]
        IN h.created =>
             /\ h.slackCalls <= 1
             /\ h.webhookCalls <= 1
             /\ (h.category = "Interested" /\ h.pc \in {"synctime", "done"})
                  => (h.slackCalls = 1 /\ h.webhookCalls = 1)
             /\ h.category # "Interested"
                  => (h.slackCalls = 0 /\ h.webhookCalls = 0)

\* C5 witness: an Interested message was persisted, the chat notification
\* failed and the webhook was still called.
NotificationGateWitness ==
    \E i \in DOMAIN handlers :
        /\ handlers[i].created
        /\ handlers[i].category = "Interested"
        /\ handlers[i].pc = "done"
        /\ handlers[i].slack = "error"
        /\ handlers[i].webhook = "ok"
        /\ handlers[i].webhookCalls = 1

\* C6: per (accountId, messageId) at most one handler calls the classifier and
\* at most one handler dispatches the Interested notifications.
SideEffectsAtMostOnce ==
    \A i \in DOMAIN handlers, j \in DOMAIN handlers :
        (i # j /\ SamePair(i, j)) =>
            /\ ~(handlers[i].classifyCalls > 0 /\ handlers[j].classifyCalls > 0)
            /\ ~(handlers[i].slackCalls > 0 /\ handlers[j].slackCalls > 0)
            /\ ~(handlers[i].webhookCalls > 0 /\ handlers[j].webhookCalls > 0)

\* C7: a message without a message-id header is stored under
\* "{accountId}-{uid}", and storage never holds a second record for that uid.
FallbackIdentityUnique ==
    \A i \in DOMAIN handlers :
        (handlers[i].header = NoHeader /\ handlers[i].emailId # 0) =>
            /\ \E e \in emails :
                 /\ e.id = handlers[i].emailId
                 /\ e.accountId = handlers[i].acct
                 /\ e.messageId = FallbackId(handlers[i].acct, handlers[i].uid)
            /\ Cardinality(EmailsByMessageId(
                   FallbackId(handlers[i].acct, handlers[i].uid), handlers[i].acct)) = 1

\* C8: a pass whose search returned N messages fetches exactly the last
\* min(N, 100) of them and starts handlers for none of the others; with N = 0
\* it fetches nothing and ends without an error.
ExpectedUids(n) ==
    LET m == IF n < BatchCap THEN n ELSE BatchCap
    IN [j \in 1..m |-> n - m + j]

BatchCapHolds ==
    \A p \in DOMAIN passes :
        LET n == Len(mailbox[passes[p].acct])
        IN (passes[p].stage = "done" /\ passes[p].result # "error") =>
             /\ n = 0 => /\ passes[p].result = "none"
                         /\ passes[p].uids = <<>>
                         /\ \A i \in DOMAIN handlers : handlers[i].pass # p
             /\ n > 0 => /\ passes[p].result = "fetched"
                         /\ passes[p].uids = ExpectedUids(n)
                         /\ \A i \in DOMAIN handlers :
                              handlers[i].pass = p =>
                                (handlers[i].uid > n - BatchCap /\ handlers[i].uid <= n)

\* C8 witness: a search returned more than 100 messages; the pass fetched 100
\* of them and started a handler.
BatchCapWitness ==
    \E p \in DOMAIN passes :
        /\ passes[p].result = "fetched"
        /\ Len(mailbox[passes[p].acct]) > BatchCap
        /\ Len(passes[p].uids) = BatchCap
        /\ passes[p].uids[1] = Len(mailbox[passes[p].acct]) - BatchCap + 1
        /\ \E i \in DOMAIN handlers : handlers[i].pass = p

\* C9: a handler whose classification call failed creates no Email and makes
\* no index write, notification or sync-time update; storage, index and sync
\* times hold only what the other handlers wrote.
ClassifyFailureStopsMessage ==
    /\ \A i \in DOMAIN handlers :
         handlers[i].fail = "classify" =>
           /\ handlers[i].pc = "failed"
           /\ ~handlers[i].created
           /\ handlers[i].emailId = 0
           /\ handlers[i].indexWrites = 0
           /\ handlers[i].slackCalls = 0
           /\ handlers[i].webhookCalls = 0
           /\ handlers[i].syncWrites = 0
    /\ Cardinality(emails) = Cardinality({i \in DOMAIN handlers : handlers[i].created})
    /\ esIndex = {handlers[i].email : i \in {j \in DOMAIN handlers : handlers[j].indexWrites > 0}}
    /\ \A a \in AccountIds :
         accounts[a].lastSyncedAt =
           Cardinality({i \in DOMAIN handlers : handlers[i].acct = a /\ handlers[i].syncWrites > 0})

\* C9 witness: a classification call has failed while another handler of the
\* pass has stored its message.
ClassifyFailureWitness ==
    \E i \in DOMAIN handlers, j \in DOMAIN handlers :
        /\ handlers[i].fail = "classify"
        /\ handlers[j].pc = "done"
        /\ handlers[j].created

\* C10: the step in which one handler fails changes no other handler, and a
\* handler that finishes without a failure of its own has its message stored.
BatchSurvivesFailure ==
    /\ [](\A i \in DOMAIN handlers :
            handlers[i].pc = "done" =>
              (handlers[i].fail = "none" /\ handlers[i].emailId # 0))
    /\ [][\A i \in DOMAIN handlers :
            (handlers[i].pc # "failed" /\ handlers'[i].pc = "failed") =>
              \A j \in DOMAIN handlers \ {i} : handlers'[j] = handlers[j]
         ]_vars

\* C10 witness: in one pass a handler failed and another one stored its message.
BatchSurvivesFailureWitness ==
    \E i \in DOMAIN handlers, j \in DOMAIN handlers :
        /\ i # j
        /\ handlers[i].pass = handlers[j].pass
        /\ handlers[i].pc = "failed"
        /\ handlers[j].pc = "done"
        /\ handlers[j].created

\* C11: for a handler that persisted its message, a failed index write or a
\* failed notification does not end the handler: the Email is still stored,
\* the other notification and the sync-time update still run, and the failed
\* call is made once only.
Persisted(h) ==
    \E e \in emails : e.id = h.emailId /\ e.accountId = h.acct /\ e.messageId = h.messageId

BestEffortSideEffects ==
    \A i \in DOMAIN handlers :
        LET h == handlers[i]
        IN (h.created /\ "error" \in {h.index, h.slack, h.webhook}) =>
             /\ Persisted(h)
             /\ h.fail = "none"
             /\ h.pc \in {"notify", "synctime", "done"}
             /\ h.indexWrites = IF h.index = "ok" THEN 1 ELSE 0
             /\ h.pc \in {"notify", "synctime"} => ENABLED (Notify(i) \/ UpdateSyncTime(i))
             /\ (h.category = "Interested" /\ h.pc \in {"synctime", "done"})
                  => (h.slackCalls = 1 /\ h.webhookCalls = 1)
             /\ h.pc = "done" => h.syncWrites = 1

\* C11 witness: a handler stored an Interested message; its index write and its
\* chat notification failed, the webhook was called and the sync time written.
BestEffortWitness ==
    \E i \in DOMAIN handlers :
        /\ handlers[i].created
        /\ handlers[i].index = "error"
        /\ handlers[i].slack = "error"
        /\ handlers[i].webhookCalls = 1
        /\ handlers[i].syncWrites = 1
        /\ handlers[i].pc = "done"
        /\ Persisted(handlers[i])

\* C12: a stopIMAPSync(a) step asks the registered session of a to end and
\* removes the entry of a; without an entry it changes no session and no
\* entry; a second call right after it changes nothing.
Running(st) == st \in {"connecting", "authenticated", "nobox", "open"}

StopIsIdempotent ==
    [][\A a \in AccountIds :
         StopIMAPSync(a) =>
           LET s == activeConnections[a]
           IN /\ activeConnections'[a] = NoSession
              /\ \A b \in AccountIds \ {a} : activeConnections'[b] = activeConnections[b]
              /\ \A t \in DOMAIN sessions : t # s => sessions'[t] = sessions[t]
              /\ s # NoSession => ~Running(sessions'[s].state)
              /\ s = NoSession => (sessions' = sessions /\ activeConnections' = activeConnections)
              /\ (SessionsAfterStop(a))' = sessions'
              /\ (ConnsAfterStop(a))' = activeConnections'
      ]_vars

\* C12 witness: the only session of an account was asked to end and its
\* registry entry is gone, which only stopIMAPSync does.
StopWitness ==
    \E s \in DOMAIN sessions :
        /\ sessions[s].state = "ending"
        /\ activeConnections[sessions[s].acct] = NoSession
        /\ \A t \in DOMAIN sessions : sessions[t].acct = sessions[s].acct => t = s

\* C13: a session that emitted a fatal error event or an end event is not the
\* session the registry maps its account id to.
FailedSessionsUnregistered ==
    \A s \in DOMAIN sessions :
        sessions[s].state \in {"errored", "ended"} =>
            activeConnections[sessions[s].acct] # s

\* C14: no two stored accounts share an email address; a registration request
\* is rejected only for an email that is registered, a rejected request has
\* created no account and started no session, and the accounts and sessions
\* that exist are those of the accepted requests.
Accepted(r) == posts[r].pc \in {"start", "done"}

UniqueAccountEmails ==
    /\ [](\A a \in AccountIds, b \in AccountIds :
            (Exists(a) /\ Exists(b) /\ accounts[a].email = accounts[b].email) => a = b)
    /\ [](\A r \in DOMAIN posts :
            /\ posts[r].pc = "rejected" =>
                 /\ posts[r].id = ""
                 /\ AccountByEmail(posts[r].email) # {}
            /\ Accepted(r) =>
                 /\ Exists(posts[r].id)
                 /\ accounts[posts[r].id].email = posts[r].email
                 /\ \A q \in DOMAIN posts : (Accepted(q) /\ posts[q].email = posts[r].email) => q = r)
    /\ [](/\ Cardinality({a \in AccountIds : Exists(a)})
               = Cardinality({r \in DOMAIN posts : Accepted(r)})
          /\ Len(sessions) = Cardinality({r \in DOMAIN posts : posts[r].pc = "done"}))
    /\ [][\A r \in DOMAIN posts :
            (posts[r].pc = "create" /\ posts'[r].pc = "rejected") =>
              (accounts' = accounts /\ sessions' = sessions)
         ]_vars

\* C14 witness: two requests for one email were in flight together; one was
\* accepted and the other rejected after it had passed the existence check.
UniqueAccountEmailsWitness ==
    \E r \in DOMAIN posts, q \in DOMAIN posts :
        /\ r < q
        /\ posts[r].email = posts[q].email
        /\ posts[q].pc = "done"
        /\ posts[r].pc = "rejected"

\* C15: a step of a handler of account A leaves the Emails and the account
\* record of every other account unchanged, and once a message of A has been
\* processed A holds exactly one Email row for it and A's lastSyncedAt is set.
EmailsOf(a) == {e \in emails : e.accountId = a}

OnlyOwnAccountChanges ==
    /\ [][\A i \in DOMAIN handlers :
            handlers'[i] # handlers[i] =>
              \A b \in AccountIds \ {handlers[i].acct} :
                  /\ {e \in emails' : e.accountId = b} = EmailsOf(b)
                  /\ accounts'[b] = accounts[b]
         ]_vars
    /\ [](\A i \in DOMAIN handlers :
            handlers[i].pc = "done" =>
              /\ Cardinality(EmailsByMessageId(handlers[i].messageId, handlers[i].acct)) = 1
              /\ accounts[handlers[i].acct].lastSyncedAt > 0)

\* C16 as claimed: an initial (ALL) pass writes lastSyncedAt once when at least
\* one of its messages was processed to the end and never otherwise; an
\* incremental (UNSEEN) pass writes it once per message processed to the end.
Processed(p) == {i \in DOMAIN handlers : handlers[i].pass = p /\ handlers[i].pc = "done"}

SyncWrites(p) == {i \in DOMAIN handlers : handlers[i].pass = p /\ handlers[i].syncWrites > 0}

SyncTimeOncePerInitialPass ==
    \A p \in DOMAIN passes :
        Cardinality(SyncWrites(p)) =
            IF passes[p].criteria = "ALL"
            THEN (IF Processed(p) = {} THEN 0 ELSE 1)
            ELSE Cardinality(Processed(p))

\* C16 as amended: in every pass, initial or incremental, the sync-time update
\* is issued once by each handler that runs to its end and by no other, and
\* the account's lastSyncedAt has been written once per such handler.
SyncTimePerMessage ==
    /\ \A i \in DOMAIN handlers :
         /\ handlers[i].syncWrites = IF handlers[i].pc = "done" THEN 1 ELSE 0
         /\ handlers[i].pc = "done" => (handlers[i].fail = "none" /\ handlers[i].emailId # 0)
    /\ \A p \in DOMAIN passes : SyncWrites(p) = Processed(p)
    /\ \A a \in AccountIds :
         accounts[a].lastSyncedAt =
           Cardinality({i \in DOMAIN handlers : handlers[i].acct = a /\ handlers[i].pc = "done"})

\* C16 witness: one initial pass processed two messages to the end and the
\* sync time was written twice.
SyncTimePerMessageWitness ==
    \E p \in DOMAIN passes :
        /\ passes[p].criteria = "ALL"
        /\ Cardinality(Processed(p)) = 2
        /\ accounts[passes[p].acct].lastSyncedAt = 2

\* C17: the stored embedding of every knowledge entry is the embedding of the
\* entry's stored content, whatever the order in which create and update
\* requests, concurrent ones included, reach the store.
EmbeddingsFresh ==
    \A k \in KnowledgeIds :
        knowledge[k].exists =>
            knowledge[k].embedding = Stringify(Embed(knowledge[k].content))

\* C17 witness: two updates of one entry with different contents overlapped;
\* the one issued first was stored last and both have answered.
EmbeddingsFreshWitness ==
    \E r \in DOMAIN kbReqs, q \in DOMAIN kbReqs :
        /\ r < q
        /\ kbReqs[r].kind = "update" /\ kbReqs[q].kind = "update"
        /\ kbReqs[r].id = kbReqs[q].id
        /\ kbReqs[r].content # kbReqs[q].content
        /\ kbReqs[r].pc = "done" /\ kbReqs[q].pc = "done"
        /\ knowledge[kbReqs[r].id].exists
        /\ knowledge[kbReqs[r].id].content = kbReqs[r].content

\* C18: searchEmails hands the route a list in every case, the empty one when
\* the index is unconfigured, unreachable or answers with an error, and the
\* route then answers 200 with the Emails the storage layer holds.
SearchNeverFails ==
    /\ search.status \in {0, 200}
    /\ search.outcome \in {"off", "unavailable", "error"} =>
         /\ search.hits = {}
         /\ search.pc \in {"fallback", "answered"}
         /\ search.pc = "answered" =>
              /\ search.source = "storage"
              /\ search.status = 200
              /\ search.result \subseteq emails
    /\ search.pc = "answered" => search.source \in {"index", "storage"}

\* C18 witness: the search call failed with Emails stored and indexed, and the
\* request was answered from storage with a non-empty list.
SearchNeverFailsWitness ==
    /\ search.outcome = "error"
    /\ search.pc = "answered"
    /\ search.source = "storage"
    /\ search.result # {}
    /\ esIndex # {}

\* C19: every Email the in-memory fallback returns satisfies every filter of
\* the request, as the Elasticsearch query requires of its hits.
FallbackHonoursFilters ==
    (search.pc = "answered" /\ search.source = "storage") =>
        \A e \in search.result : EsMatches(e, search.filters)

\* C20: the initial pass of a session fetches only messages received within
\* the 30 days before the session opened the inbox.
InitialSyncWithinWindow ==
    \A p \in DOMAIN passes :
        passes[p].criteria = "ALL" =>
            \A j \in DOMAIN passes[p].uids : passes[p].uids[j] > stale[passes[p].acct]

\* C22: every Email the sync pipeline has stored carries one of the five
\* categories, whatever the classification call returned.
StoredCategoryInEnum ==
    \A e \in emails : e.category \in Categories

\* C23: a handler that found its (messageId, accountId) stored at the
\* existence check ends there: it has made no classification call, no storage
\* write, no index write, no notification and no sync-time update, and the
\* step of the check changes neither storage nor the index.
SkippedDoesNothing ==
    /\ [](\A i \in DOMAIN handlers :
            handlers[i].pc = "skipped" =>
              /\ handlers[i].classifyCalls = 0
              /\ ~handlers[i].created
              /\ handlers[i].emailId = 0
              /\ handlers[i].indexWrites = 0
              /\ handlers[i].slackCalls = 0
              /\ handlers[i].webhookCalls = 0
              /\ handlers[i].syncWrites = 0)
    /\ [][\A i \in DOMAIN handlers :
            ( /\ handlers[i].pc = "parse"
              /\ handlers'[i].pc # "parse"
              /\ EmailsByMessageId(
                    ResolveMessageId(handlers[i].header, handlers[i].acct, handlers[i].uid),
                    handlers[i].acct) # {} )
            => ( /\ handlers'[i].pc \in {"skipped", "failed"}
                 /\ UNCHANGED <<storageVars>> )
         ]_vars

\* C23 witness: a handler was skipped because another handler of the pass had
\* stored the same (messageId, accountId).
SkippedWitness ==
    \E i \in DOMAIN handlers, j \in DOMAIN handlers :
        /\ i # j
        /\ SamePair(i, j)
        /\ handlers[i].pc = "skipped"
        /\ handlers[j].created

\* C24: the events of a handler come in the order classify, persist, index,
\* notify, sync time: a handler past the storage call has classified, one
\* past the index call holds the id of a stored Email, one that notified is
\* past the index call, and one that wrote the sync time is past the index
\* call and, for Interested, past both notifications; the index holds only
\* stored Emails.
PipelineOrder ==
    /\ esIndex \subseteq emails
    /\ \A i \in DOMAIN handlers :
         LET h == handlers[i]
         IN /\ (h.pc \in {"create", "reread", "index", "notify", "synctime", "done"}
                  \/ h.emailId # 0)
                 => (h.classifyCalls = 1 /\ h.category # "none")
            /\ h.index # "idle" => (h.emailId # 0 /\ \E e \in emails : e.id = h.emailId)
            /\ (h.slackCalls > 0 \/ h.webhookCalls > 0) => h.index # "idle"
            /\ h.syncWrites > 0 =>
                 /\ h.index # "idle"
                 /\ h.category = "Interested" => (h.slackCalls = 1 /\ h.webhookCalls = 1)

\* C24 witness: a handler went through every stage for an Interested message.
PipelineOrderWitness ==
    \E i \in DOMAIN handlers :
        /\ handlers[i].pc = "done"
        /\ handlers[i].created
        /\ handlers[i].classifyCalls = 1
        /\ handlers[i].index = "ok"
        /\ handlers[i].slackCalls = 1
        /\ handlers[i].webhookCalls = 1
        /\ handlers[i].syncWrites = 1

\* C30: a message whose message-id is stored for another account only is not
\* skipped at the existence check; its handler classifies it and, when it
\* finishes, the account has its own single record of the message.
StoredFor(mid, a) == {e \in emails : e.messageId = mid /\ e.accountId = a}

DedupKeyedOnPair ==
    /\ [](\A i \in DOMAIN handlers :
            handlers[i].pc = "done" =>
              /\ handlers[i].classifyCalls = 1
              /\ handlers[i].created
              /\ Cardinality(StoredFor(handlers[i].messageId, handlers[i].acct)) = 1)
    /\ [][\A i \in DOMAIN handlers :
            LET mid == ResolveMessageId(handlers[i].header, handlers[i].acct, handlers[i].uid)
            IN ( /\ handlers[i].pc = "parse"
                 /\ handlers'[i].pc # "parse"
                 /\ StoredFor(mid, handlers[i].acct) = {}
                 /\ \E e \in emails : e.messageId = mid /\ e.accountId # handlers[i].acct )
               => handlers'[i].pc \in {"categorize", "failed"}
         ]_vars

\* C30 witness: both accounts hold a record of the message "<m1>", each stored
\* by its own handler.
DedupKeyedOnPairWitness ==
    \E i \in DOMAIN handlers, j \in DOMAIN handlers :
        /\ handlers[i].acct # handlers[j].acct
        /\ handlers[i].messageId = "<m1>" /\ handlers[j].messageId = "<m1>"
        /\ handlers[i].pc = "done" /\ handlers[j].pc = "done"
        /\ handlers[i].created /\ handlers[j].created
        /\ Cardinality({e \in emails : e.messageId = "<m1>"}) = 2

\* C27: a session that is connecting or connected and was not asked to end is
\* the session the registry maps its account id to, so that stopIMAPSync of
\* that account reaches it.
RegistryTracksLiveSession ==
    \A s \in DOMAIN sessions :
        Running(sessions[s].state) => activeConnections[sessions[s].acct] = s

\* C28: every stored Email belongs to a stored account, except while the
\* deletion of its account is still running: no handler creates an Email for
\* an account whose deletion has succeeded.
EmailsHaveAccounts ==
    \A e \in emails :
        Exists(e.accountId) \/ delReq[e.accountId] # "idle"

\* C29: a GET /api/emails request that arrives after an account has been
\* deleted is answered without any Email of that account, from the index and
\* from storage alike.
DeletedAccountsNotReturned ==
    search.pc = "answered" =>
        \A e \in search.result : e.accountId \notin search.gone

\* C21: whenever the session of a stored account has ended or failed and the
\* account has no connected session, a session of that account is connecting
\* or connected again at some later time, although nobody calls startIMAPSync.
ConnectionLost(a) ==
    /\ Exists(a)
    /\ \E s \in DOMAIN sessions :
         sessions[s].acct = a /\ sessions[s].state \in {"ended", "errored"}
    /\ \A s \in DOMAIN sessions : sessions[s].acct = a => ~Running(sessions[s].state)

Reconnected(a) ==
    \E s \in DOMAIN sessions : sessions[s].acct = a /\ Running(sessions[s].state)

AutomaticReconnection ==
    \A a \in {"a1", "a2"} : [](ConnectionLost(a) => <>Reconnected(a))

\* C25 as stated: no tick calls imap.idle() on a session that was asked to
\* end (stopped) or has ended.
NoIdleAfterStop ==
    \A s \in DOMAIN sessions : sessions[s].idledIn \cap {"ending", "ended"} = {}

\* C25 amended: a tick calls imap.idle() only on a session whose connection has
\* not closed and keeps the timer, a tick on an ended session cancels the timer,
\* a tick on a connected session that was not asked to end and has not failed
\* calls imap.idle(), and a cancelled timer does nothing any more.
KeepaliveFollowsState ==
    /\ [](\A s \in DOMAIN sessions :
            /\ sessions[s].idledIn \subseteq {"open", "ending", "errored"}
            /\ sessions[s].timer = "none" => sessions[s].idledIn = {})
    /\ [][\A s \in DOMAIN sessions :
            /\ sessions[s].timer = "cleared" =>
                 /\ sessions'[s].timer = "cleared"
                 /\ sessions'[s].idledIn = sessions[s].idledIn
            /\ sessions'[s].idledIn # sessions[s].idledIn =>
                 /\ sessions[s].timer = "set" /\ sessions'[s].timer = "set"
                 /\ sessions'[s].idledIn = sessions[s].idledIn \cup {sessions[s].state}
            /\ (sessions[s].timer = "set" /\ sessions'[s].timer = "cleared") =>
                 sessions[s].state \in {"ending", "errored", "ended"}
            /\ (KeepaliveTick(s) /\ sessions[s].state = "open") =>
                 "open" \in sessions'[s].idledIn
            /\ (KeepaliveTick(s) /\ sessions[s].state = "ended") =>
                 sessions'[s].timer = "cleared"
         ]_vars

\* C25 witness: a session got an idle call while it was open, then ended, and
\* the next tick cancelled its timer.
KeepaliveWitness ==
    \E s \in DOMAIN sessions :
        /\ "open" \in sessions[s].idledIn
        /\ sessions[s].state = "ended"
        /\ sessions[s].timer = "cleared"

\* C26: if the session of a1 stays up and no external call fails (openBox,
\* search, fetch, parser, classifier, storage), then eventually every message
\* among the last 100 of the inbox has a stored Email and every handler of the
\* pass has finished.
EverythingSucceeds ==
    /\ sessions[1].state \in {"authenticated", "open"}
    /\ \A p \in DOMAIN passes :
         /\ passes[p].result # "error"
         /\ passes[p].result = "fetched" => passes[p].delivered = Len(passes[p].uids)
    /\ \A i \in DOMAIN handlers : handlers[i].fail = "none"

RecentStored ==
    \A uid \in Range(FetchUids(SeqFromTo(1, Len(mailbox["a1"])))) :
        StoredFor(ResolveMessageId(mailbox["a1"][uid], "a1", uid), "a1") # {}

HandlersFinished ==
    \A i \in DOMAIN handlers : handlers[i].pc \in {"done", "skipped", "failed"}

NoMailLost ==
    ([]EverythingSucceeds) => <>[](RecentStored /\ HandlersFinished /\ passes # <<>>)

\* C26 witness: a pass fetched two messages, nothing failed, both handlers
\* have finished and both messages are stored.
NoMailLostWitness ==
    /\ EverythingSucceeds
    /\ Len(mailbox["a1"]) = 2
    /\ Len(handlers) = 2
    /\ HandlersFinished
    /\ RecentStored

====
